---- MODULE Spec2Model ----
(***************************************************************************)
(* State-machine model of chart.py: the synthetic customer data generator  *)
(* generate_synthetic_customer_data and the heatmap rendering in main.     *)
(*                                                                         *)
(* Numbers.  Every float of the program is held in hundredths (fixed       *)
(* point, Fx(u, h) is the decimal u.hh).  A standard normal variate is an  *)
(* integer number of standard deviations, so every product and sum below   *)
(* is exact in hundredths and no rounding is modelled.                     *)
(***************************************************************************)
EXTENDS Integers, Sequences, FiniteSets, TLC

VARIABLES
    pc,            \* control point: the source line about to run, or idle/done/raised
    caller,        \* who called generate_synthetic_customer_data: "test" or "main"
    n_customers,   \* argument of the running call
    random_state,  \* argument of the running call
    bitgen,        \* the generator library: seed -> the variate stream it yields
    rng,           \* the Generator object of the running call (line 12)
    locals,        \* the arrays bound to local names of the running call
    drawlog,       \* the rng.normal calls of the running call, in order
    result,        \* the value returned to the caller (a DataFrame), or None
    error,         \* the exception that ended the call, or None
    returned,      \* history: call arguments -> the datasets returned for them
    calls_left,    \* how many more calls the caller makes
    corr,          \* main: the correlation matrix (line 99)
    rc,            \* main: seaborn style and context (lines 102-103)
    figs,          \* pyplot: the figures that are open
    fig,           \* main: the figure of line 111
    mask,          \* main: the mask of line 114
    ax,            \* main: what the axes show (lines 116-141)
    file,          \* chart.png on disk
    runs           \* how many times main has been started

mainvars == <<corr, rc, figs, fig, mask, ax, file, runs>>
vars     == <<pc, caller, n_customers, random_state, bitgen, rng, locals,
              drawlog, result, error, returned, calls_left,
              corr, rc, figs, fig, mask, ax, file, runs>>

----------------------------------------------------------------------------
(* Bounds of the model *)

MaxN      == 2   \* largest n_customers a test passes
Period    == 10  \* period of a generator's variate stream
DetPeriod == 3   \* period of the streams of the repeated-call specification
ZMax      == 6   \* a variate is ZMax standard deviations below or above the mean
MaxCalls  == 3   \* calls made in the repeated-call specification
MaxRuns   == 2   \* runs of main in one process

(* Program constants *)

DefaultNCustomers == 1000
DefaultRandomState == 42
FigDpi == 64

None == <<>>            \* Python's None; Some(x) is a present value
Some(x) == <<x>>

Fx(u, h) == 100 * u + h
Mul(a, b) == (a * b) \div 100      \* product of two fixed-point numbers
Max(a, b) == IF a >= b THEN a ELSE b
Min(a, b) == IF a <= b THEN a ELSE b

----------------------------------------------------------------------------
(* Inputs *)

Seeds    == {-1, 0, 7}             \* random_state values a caller passes
Normals  == {-ZMax, ZMax}          \* standard normal variates, in deviations
Tapes(p) == [1..p -> Normals]

\* n_customers: an int v, or the float v + 0.5
IntArg(v)   == [type |-> "int", v |-> v]
FloatArg(v) == [type |-> "float", v |-> v]
Sizes       == {IntArg(v) : v \in -1..MaxN} \cup {FloatArg(1)}

----------------------------------------------------------------------------
(* numpy: Generator, clip *)

\* The k-th variate (k from 0) of the stream that seed yields.
Variate(seed, k) == bitgen[seed][(k % Len(bitgen[seed])) + 1]

\* rng.normal(loc, scale, size): the next size variates of g, scaled.
Normal(g, loc, scale, size) ==
    [i \in 1..size |-> loc + scale * Variate(g.seed, g.pos + i - 1)]

\* np.clip(a, a_min, a_max); a_max None leaves the top open.
Clip(a, a_min, a_max) ==
    [i \in DOMAIN a |->
        LET lo == Max(a[i], a_min)
        IN  IF a_max = None THEN lo ELSE Min(lo, a_max[1])]

\* base + weight * engagement_factor + noise, elementwise
Linear(base, weight, e, noise) ==
    [i \in DOMAIN e |-> base + Mul(weight, e[i]) + noise[i]]

----------------------------------------------------------------------------
(* generate_synthetic_customer_data: the value of each statement *)

visits_per_month(e, noise) ==
    Clip(Linear(Fx(4, 0), Fx(2, 0), e, noise), Fx(0, 0), None)

avg_session_duration_min(e, noise) ==
    Clip(Linear(Fx(5, 0), Fx(3, 0), e, noise), Fx(1, 0), None)

pages_per_session(e, noise) ==
    Clip(Linear(Fx(3, 0), Fx(1, 50), e, noise), Fx(1, 0), None)

\* A faulty variant: the upper clamp of the open rate left out.
email_open_rate_unclamped(e, noise) ==
    Clip(Linear(Fx(0, 15), Fx(0, 10), e, noise), Fx(0, 0), None)

email_open_rate(e, noise) ==
    Clip(Linear(Fx(0, 15), Fx(0, 10), e, noise), Fx(0, 0), Some(Fx(1, 0)))

email_click_through_rate(e, noise) ==
    Clip(Linear(Fx(0, 3), Fx(0, 7), e, noise), Fx(0, 0), Some(Fx(1, 0)))

purchase_frequency_per_month(e, noise) ==
    Clip(Linear(Fx(0, 50), Fx(0, 60), e, noise), Fx(0, 0), None)

avg_order_value(e, noise) ==
    Clip(Linear(Fx(40, 0), Fx(8, 0), e, noise), Fx(5, 0), None)

\* A faulty variant: every row takes the first customer's purchase frequency.
customer_lifetime_value_misaligned(e, pf, aov, noise) ==
    Clip([i \in DOMAIN e |->
            Fx(200, 0) + Mul(Fx(80, 0), e[i]) + Mul(Fx(10, 0), pf[1])
            + Mul(Fx(0, 50), aov[i]) + noise[i]],
         Fx(0, 0), None)

customer_lifetime_value(e, pf, aov, noise) ==
    Clip([i \in DOMAIN e |->
            Fx(200, 0) + Mul(Fx(80, 0), e[i]) + Mul(Fx(10, 0), pf[i])
            + Mul(Fx(0, 50), aov[i]) + noise[i]],
         Fx(0, 0), None)

nps_score(e, noise) ==
    Clip(Linear(Fx(20, 0), Fx(15, 0), e, noise), Fx(-100, 0), Some(Fx(100, 0)))

\* A faulty variant: the latent factor exported as a tenth column.
ColumnsWithLatent ==
    << <<"Engagement Factor", "engagement_factor">>,
       <<"Visits per Month", "visits_per_month">>,
       <<"Avg Session Duration (min)", "avg_session_duration_min">>,
       <<"Pages per Session", "pages_per_session">>,
       <<"Email Open Rate", "email_open_rate">>,
       <<"Email CTR", "email_click_through_rate">>,
       <<"Purchase Frequency / Month", "purchase_frequency_per_month">>,
       <<"Average Order Value ($)", "avg_order_value">>,
       <<"Customer Lifetime Value ($)", "customer_lifetime_value">>,
       <<"NPS Score", "nps_score">> >>

\* The column labels of the DataFrame of lines 77-89, in order, each with the
\* local array it holds.
Columns ==
    << <<"Visits per Month", "visits_per_month">>,
       <<"Avg Session Duration (min)", "avg_session_duration_min">>,
       <<"Pages per Session", "pages_per_session">>,
       <<"Email Open Rate", "email_open_rate">>,
       <<"Email CTR", "email_click_through_rate">>,
       <<"Purchase Frequency / Month", "purchase_frequency_per_month">>,
       <<"Average Order Value ($)", "avg_order_value">>,
       <<"Customer Lifetime Value ($)", "customer_lifetime_value">>,
       <<"NPS Score", "nps_score">> >>

\* pd.DataFrame(dict): the columns in the dict's order, one row per element.
DataFrame(dict) ==
    [columns |-> [k \in DOMAIN dict |-> dict[k][1]],
     nrows   |-> Len(dict[1][2]),
     data    |-> [label \in {dict[k][1] : k \in DOMAIN dict} |->
                    LET k == CHOOSE j \in DOMAIN dict : dict[j][1] = label
                    IN  dict[k][2]]]

----------------------------------------------------------------------------
(* generate_synthetic_customer_data: the statements *)

NoLocals == [name \in {} |-> <<>>]

\* A faulty variant: nps_score computed before customer_lifetime_value.
OrderNpsBeforeClv ==
    << "default_rng",
       "engagement_factor",
       "visits_per_month",
       "avg_session_duration_min",
       "pages_per_session",
       "email_open_rate",
       "email_click_through_rate",
       "purchase_frequency_per_month",
       "avg_order_value",
       "nps_score",
       "customer_lifetime_value",
       "DataFrame",
       "return" >>

\* The statements of lines 12-91 in program order; pc names the next one.
Order ==
    << "default_rng",
       "engagement_factor",
       "visits_per_month",
       "avg_session_duration_min",
       "pages_per_session",
       "email_open_rate",
       "email_click_through_rate",
       "purchase_frequency_per_month",
       "avg_order_value",
       "customer_lifetime_value",
       "nps_score",
       "DataFrame",
       "return" >>

After(statement) ==
    Order[1 + CHOOSE k \in DOMAIN Order : Order[k] = statement]

\* A faulty variant: a generator shared by all calls, which goes on where the
\* calls before it stopped instead of starting the seed's stream afresh.
SharedGenerator(seed) == [seed |-> seed, pos |-> MaxCalls - calls_left - 1]

\* np.random.default_rng(seed): a new Generator at the start of the seed's
\* stream.
NewGenerator(seed) == [seed |-> seed, pos |-> 0]

\* default_rng refuses a negative seed.
SeedError(seed) == IF seed < 0 THEN Some("ValueError") ELSE None

\* A faulty variant: a negative size taken as an empty draw.
SizeErrorNegativeAccepted(size) ==
    IF size.type # "int" THEN Some("TypeError") ELSE None

\* rng.normal(..., size): numpy refuses a size that is not an int and a
\* negative size.
SizeError(size) ==
    IF size.type # "int" THEN Some("TypeError")
    ELSE IF size.v < 0 THEN Some("ValueError")
    ELSE None

\* An exception leaves the function: its frame is dropped, nothing is returned.
Raise(exception) ==
    /\ pc' = "raised"
    /\ error' = exception
    /\ rng' = None
    /\ locals' = NoLocals
    /\ UNCHANGED <<caller, n_customers, random_state, bitgen, drawlog,
                   result, returned, calls_left>>

\* A caller (a test, another program) calls the function.
Call(size, seed) ==
    /\ pc \in {"idle", "returned", "raised"}
    /\ calls_left > 0
    /\ calls_left' = calls_left - 1
    /\ caller' = "test"
    /\ n_customers' = size
    /\ random_state' = seed
    /\ pc' = Order[1]
    /\ rng' = None
    /\ locals' = NoLocals
    /\ drawlog' = <<>>
    /\ result' = None
    /\ error' = None
    /\ UNCHANGED <<bitgen, returned>>
    /\ UNCHANGED mainvars

\* line 12: rng = np.random.default_rng(random_state).  The stream of a seed
\* met for the first time is any stream; it is the seed's stream from then on.
line12 ==
    /\ pc = "default_rng"
    /\ IF SeedError(random_state) # None
       THEN Raise(SeedError(random_state))
       ELSE /\ rng' = NewGenerator(random_state)
            /\ \E tape \in IF random_state \in DOMAIN bitgen
                         THEN {bitgen[random_state]}
                         ELSE Tapes(Period) :
                 bitgen' = (random_state :> tape) @@ bitgen
            /\ pc' = After("default_rng")
            /\ UNCHANGED <<caller, n_customers, random_state, locals, drawlog,
                           result, error, returned, calls_left>>
    /\ UNCHANGED mainvars

\* One statement name = f(rng.normal(loc, scale, n_customers)), value being
\* the array it computes: the draw advances the generator by n_customers
\* variates.
Statement(name, value) ==
    /\ pc = name
    /\ IF SizeError(n_customers) # None
       THEN Raise(SizeError(n_customers))
       ELSE /\ locals' = (name :> value) @@ locals
            /\ drawlog' = Append(drawlog, [name |-> name, from |-> rng.pos,
                                           size |-> n_customers.v])
            /\ rng' = [rng EXCEPT !.pos = @ + n_customers.v]
            /\ pc' = After(name)
            /\ UNCHANGED <<caller, n_customers, random_state, bitgen, result,
                           error, returned, calls_left>>
    /\ UNCHANGED mainvars

\* rng.normal(loc, scale, n_customers) on the call's generator
Draw(loc, scale) == Normal(rng, loc, scale, n_customers.v)

line15 ==
    Statement("engagement_factor", Draw(Fx(0, 0), Fx(1, 0)))

line18 ==
    Statement("visits_per_month",
              visits_per_month(locals.engagement_factor, Draw(0, Fx(1, 50))))

line24 ==
    Statement("avg_session_duration_min",
              avg_session_duration_min(locals.engagement_factor,
                                       Draw(0, Fx(2, 0))))

line30 ==
    Statement("pages_per_session",
              pages_per_session(locals.engagement_factor, Draw(0, Fx(1, 0))))

line37 ==
    Statement("email_open_rate",
              email_open_rate(locals.engagement_factor, Draw(0, Fx(0, 5))))

line43 ==
    Statement("email_click_through_rate",
              email_click_through_rate(locals.engagement_factor,
                                       Draw(0, Fx(0, 3))))

line50 ==
    Statement("purchase_frequency_per_month",
              purchase_frequency_per_month(locals.engagement_factor,
                                           Draw(0, Fx(0, 30))))

line56 ==
    Statement("avg_order_value",
              avg_order_value(locals.engagement_factor, Draw(0, Fx(10, 0))))

line62 ==
    Statement("customer_lifetime_value",
              customer_lifetime_value(locals.engagement_factor,
                                      locals.purchase_frequency_per_month,
                                      locals.avg_order_value,
                                      Draw(0, Fx(50, 0))))

line71 ==
    Statement("nps_score",
              nps_score(locals.engagement_factor, Draw(0, Fx(10, 0))))

\* lines 77-89: df = pd.DataFrame({...})
line77 ==
    /\ pc = "DataFrame"
    /\ locals' = ("df" :> DataFrame([k \in DOMAIN Columns |->
                                       <<Columns[k][1], locals[Columns[k][2]]>>]))
                 @@ locals
    /\ pc' = After("DataFrame")
    /\ UNCHANGED <<caller, n_customers, random_state, bitgen, rng, drawlog,
                   result, error, returned, calls_left>>
    /\ UNCHANGED mainvars

\* line 91: return df.  The frame (the arrays, the generator) is dropped.
line91 ==
    /\ pc = "return"
    /\ result' = Some(locals.df)
    /\ returned' = IF caller = "test"
                   THEN [returned EXCEPT ![<<n_customers, random_state>>] =
                                             Append(@, locals.df)]
                   ELSE returned
    /\ locals' = NoLocals
    /\ rng' = None
    /\ pc' = IF caller = "main" THEN "m99" ELSE "returned"
    /\ UNCHANGED <<caller, n_customers, random_state, bitgen, drawlog, error,
                   calls_left>>
    /\ UNCHANGED mainvars

generate_synthetic_customer_data ==
    \/ line12
    \/ line15
    \/ line18
    \/ line24
    \/ line30
    \/ line37
    \/ line43
    \/ line50
    \/ line56
    \/ line62
    \/ line71
    \/ line77
    \/ line91

----------------
(* Specification of the generator called once by a test *)

NoFile == None
NoFig  == None

InitMainVars ==
    /\ corr = None
    /\ rc = [style |-> "default", context |-> "default"]
    /\ figs = {}
    /\ fig = NoFig
    /\ mask = None
    /\ ax = None
    /\ file = NoFile
    /\ runs = 0

InitGen(budget, library) ==
    /\ pc = "idle"
    /\ caller = "test"
    /\ n_customers = IntArg(0)
    /\ random_state = 0
    /\ bitgen = library
    /\ rng = None
    /\ locals = NoLocals
    /\ drawlog = <<>>
    /\ result = None
    /\ error = None
    /\ returned = [args \in Sizes \X Seeds |-> <<>>]
    /\ calls_left = budget

Init ==
    /\ InitGen(1, [seed \in {} |-> <<>>])
    /\ InitMainVars

Next ==
    \/ \E size \in Sizes, seed \in Seeds : Call(size, seed)
    \/ generate_synthetic_customer_data

Spec == Init /\ [][Next]_vars

----------------------------------------------------------------------------
(* Specification of repeated calls: the library's streams are fixed first *)

ValidSeeds == {seed \in Seeds : seed >= 0}

InitDet ==
    /\ \E library \in [ValidSeeds -> Tapes(DetPeriod)] :
         InitGen(MaxCalls, library)
    /\ InitMainVars

\* The caller repeats calls with a seed the library accepts and a positive
\* integer n_customers.
ValidSizes == {size \in Sizes : size.type = "int" /\ size.v >= 1}

NextDet ==
    \/ \E size \in ValidSizes, seed \in ValidSeeds : Call(size, seed)
    \/ generate_synthetic_customer_data

SpecDet == InitDet /\ [][NextDet]_vars

----------------------------------------------------------------------------
(* pandas, numpy, matplotlib, seaborn as main uses them *)

\* df.corr(): a square matrix over the columns of df.  The coefficients
\* themselves are not modelled, only the matrix's labels and shape.
Corr(df) == [labels |-> df.columns, shape |-> <<Len(df.columns), Len(df.columns)>>]

\* np.ones_like(corr, dtype=bool)
OnesLike(m) == [r \in 1..m.shape[1] |-> [c \in 1..m.shape[2] |-> TRUE]]

\* A faulty variant: np.triu(m, k=1), which leaves the diagonal unmasked.
TriuAboveDiagonal(m) ==
    [r \in DOMAIN m |-> [c \in DOMAIN m[r] |-> IF c > r THEN m[r][c] ELSE FALSE]]

\* np.triu(m): the elements below the main diagonal zeroed.
Triu(m) == [r \in DOMAIN m |-> [c \in DOMAIN m[r] |-> IF c >= r THEN m[r][c] ELSE FALSE]]

FigSize == <<8, 8>>

\* plt.subplots numbers the new figure one past the highest open one.
NextFigNum == IF figs = {} THEN 1 ELSE 1 + CHOOSE k \in figs : \A j \in figs : j <= k

\* A faulty variant: the file saved at 100 pixels per inch whatever dpi is asked.
SavefigAt100(f, dpi) ==
    [format |-> "png", dpi |-> 100,
     width |-> f.figsize[1] * 100, height |-> f.figsize[2] * 100]

\* fig.savefig(fname, dpi=dpi) with no bbox_inches: the whole canvas, figsize
\* inches at dpi pixels per inch.
Savefig(f, dpi) ==
    [format |-> "png", dpi |-> dpi,
     width |-> f.figsize[1] * dpi, height |-> f.figsize[2] * dpi]

----------------------------------------------------------------------------
(* main *)

\* main returns or raises: its locals are dropped.
DropMainLocals ==
    /\ corr' = None
    /\ fig' = NoFig
    /\ mask' = None
    /\ ax' = None
    /\ result' = None

\* line 96: df = generate_synthetic_customer_data()
line96 ==
    /\ pc \in {"idle", "done", "raised"}
    /\ runs < MaxRuns
    /\ runs' = runs + 1
    /\ caller' = "main"
    /\ n_customers' = IntArg(DefaultNCustomers)
    /\ random_state' = DefaultRandomState
    /\ pc' = Order[1]
    /\ rng' = None
    /\ locals' = NoLocals
    /\ drawlog' = <<>>
    /\ result' = None
    /\ error' = None
    /\ UNCHANGED <<bitgen, returned, calls_left>>
    /\ UNCHANGED <<corr, rc, figs, fig, mask, ax, file>>

\* line 99: corr = df.corr()
line99 ==
    /\ pc = "m99"
    /\ corr' = Corr(result[1])
    /\ pc' = "m102"
    /\ UNCHANGED <<caller, n_customers, random_state, bitgen, rng, locals,
                   drawlog, result, error, returned, calls_left>>
    /\ UNCHANGED <<rc, figs, fig, mask, ax, file, runs>>

\* lines 102-103: sns.set_style("white"); sns.set_context("talk")
line102 ==
    /\ pc = "m102"
    /\ rc' = [style |-> "white", context |-> "talk"]
    /\ pc' = "m111"
    /\ UNCHANGED <<caller, n_customers, random_state, bitgen, rng, locals,
                   drawlog, result, error, returned, calls_left>>
    /\ UNCHANGED <<corr, figs, fig, mask, ax, file, runs>>

\* line 111: fig, ax = plt.subplots(figsize=(8, 8), dpi=64)
line111 ==
    /\ pc = "m111"
    /\ fig' = Some([num |-> NextFigNum, figsize |-> FigSize, dpi |-> FigDpi])
    /\ figs' = figs \cup {NextFigNum}
    /\ ax' = Some([cells |-> {}, annot |-> {}, title |-> "",
                   xrotation |-> 0, yrotation |-> 0])
    /\ pc' = "m114"
    /\ UNCHANGED <<caller, n_customers, random_state, bitgen, rng, locals,
                   drawlog, result, error, returned, calls_left>>
    /\ UNCHANGED <<corr, rc, mask, file, runs>>

\* line 114: mask = np.triu(np.ones_like(corr, dtype=bool))
line114 ==
    /\ pc = "m114"
    /\ mask' = Some(Triu(OnesLike(corr)))
    /\ pc' = "m116"
    /\ UNCHANGED <<caller, n_customers, random_state, bitgen, rng, locals,
                   drawlog, result, error, returned, calls_left>>
    /\ UNCHANGED <<corr, rc, figs, fig, ax, file, runs>>

\* lines 116-131: sns.heatmap(corr, mask=mask, annot=True, fmt=".2f", ...)
\* draws a cell, and with annot=True its number, where the mask is False.
Heatmap(m, msk) ==
    LET shown == {cell \in (1..m.shape[1]) \X (1..m.shape[2]) :
                    ~msk[cell[1]][cell[2]]}
    IN  [cells |-> shown, annot |-> shown, title |-> "",
         xrotation |-> 0, yrotation |-> 0]

line116 ==
    /\ pc = "m116"
    /\ ax' = Some(Heatmap(corr, mask[1]))
    /\ pc' = "m134"
    /\ UNCHANGED <<caller, n_customers, random_state, bitgen, rng, locals,
                   drawlog, result, error, returned, calls_left>>
    /\ UNCHANGED <<corr, rc, figs, fig, mask, file, runs>>

\* lines 134-141: the title and the tick labels
line134 ==
    /\ pc = "m134"
    /\ ax' = Some([ax[1] EXCEPT
                     !.title = "Customer Engagement Metric Correlation Matrix",
                     !.xrotation = 45, !.yrotation = 0])
    /\ pc' = "m146"
    /\ UNCHANGED <<caller, n_customers, random_state, bitgen, rng, locals,
                   drawlog, result, error, returned, calls_left>>
    /\ UNCHANGED <<corr, rc, figs, fig, mask, file, runs>>

\* line 146: fig.savefig("chart.png", dpi=fig.dpi).  The write succeeds, or
\* the path is not writable and OSError leaves main: line 147 does not run.
line146 ==
    /\ pc = "m146"
    /\ \E writable \in BOOLEAN :
         IF writable
         THEN /\ file' = Some(Savefig(fig[1], fig[1].dpi))
              /\ pc' = "m147"
              /\ UNCHANGED <<corr, fig, mask, ax, result, error>>
         ELSE /\ pc' = "raised"
              /\ error' = Some("OSError")
              /\ DropMainLocals
              /\ UNCHANGED file
    /\ UNCHANGED <<caller, n_customers, random_state, bitgen, rng, locals,
                   drawlog, returned, calls_left>>
    /\ UNCHANGED <<rc, figs, runs>>

\* line 147: plt.close(fig); main returns.
line147 ==
    /\ pc = "m147"
    /\ figs' = figs \ {fig[1].num}
    /\ pc' = "done"
    /\ DropMainLocals
    /\ UNCHANGED <<caller, n_customers, random_state, bitgen, rng, locals,
                   drawlog, error, returned, calls_left>>
    /\ UNCHANGED <<rc, file, runs>>

main ==
    \/ line96
    \/ line99
    \/ line102
    \/ line111
    \/ line114
    \/ line116
    \/ line134
    \/ line146
    \/ line147

InitMain ==
    /\ \E library \in [{DefaultRandomState} -> Tapes(DetPeriod)] :
         InitGen(0, library)
    /\ InitMainVars

NextMain ==
    \/ main
    \/ generate_synthetic_customer_data

SpecMain == InitMain /\ [][NextMain]_vars

----------------------------------------------------------------------------
(* Properties *)

Data(label) == result[1].data[label]
Rows == 1..result[1].nrows

\* The variates of the draw logged for a statement, one per customer.
LoggedEntry(name) == drawlog[CHOOSE k \in DOMAIN drawlog : drawlog[k].name = name]
LoggedVariate(name, i) == Variate(random_state, LoggedEntry(name).from + i - 1)
Positions(entry) == entry.from .. (entry.from + entry.size - 1)
NamesBefore(k) == {drawlog[j].name : j \in 1..(k - 1)}

\* C1: in every row of a returned dataset of n_customers >= 1 rows each
\* field lies in its closed clamp interval: visits >= 0, session duration
\* >= 1, pages >= 1, open rate and click-through rate in [0, 1], purchase
\* frequency >= 0, order value >= 5, lifetime value >= 0, NPS in [-100, 100].
C1_ClampBounds ==
    (pc = "returned" /\ n_customers.v >= 1) =>
        \A i \in Rows :
            /\ Data("Visits per Month")[i] >= 0
            /\ Data("Avg Session Duration (min)")[i] >= 100
            /\ Data("Pages per Session")[i] >= 100
            /\ Data("Email Open Rate")[i] >= 0
            /\ Data("Email Open Rate")[i] <= 100
            /\ Data("Email CTR")[i] >= 0
            /\ Data("Email CTR")[i] <= 100
            /\ Data("Purchase Frequency / Month")[i] >= 0
            /\ Data("Average Order Value ($)")[i] >= 500
            /\ Data("Customer Lifetime Value ($)")[i] >= 0
            /\ Data("NPS Score")[i] >= -10000
            /\ Data("NPS Score")[i] <= 10000

\* A returned dataset of two rows with values on both ends of the clamp
\* intervals and values inside them.
C1_Witness ==
    /\ pc = "returned"
    /\ n_customers = IntArg(2)
    /\ Data("Email Open Rate") = <<100, 0>>
    /\ Data("NPS Score") = <<10000, -10000>>
    /\ Data("Average Order Value ($)")[2] = 500
    /\ Data("Average Order Value ($)")[1] > 500
    /\ Data("Visits per Month")[1] > 0
    /\ Data("Email CTR")[1] \in 1..99

\* C2: a returned dataset has exactly n_customers rows and exactly the nine
\* metric columns, in order; the latent engagement factor is not a column.
C2_Shape ==
    pc = "returned" =>
        /\ result[1].nrows = n_customers.v
        /\ result[1].columns =
             << "Visits per Month", "Avg Session Duration (min)",
                "Pages per Session", "Email Open Rate", "Email CTR",
                "Purchase Frequency / Month", "Average Order Value ($)",
                "Customer Lifetime Value ($)", "NPS Score" >>
        /\ DOMAIN result[1].data = {result[1].columns[k] : k \in 1..9}
        /\ \A label \in DOMAIN result[1].data :
             Len(result[1].data[label]) = n_customers.v

C2_Witness ==
    /\ pc = "returned"
    /\ n_customers = IntArg(2)
    /\ result[1].nrows = 2
    /\ Len(result[1].columns) = 9

\* C3: all the datasets returned for the same n_customers and the same seed
\* are identical, whatever other calls were made before or between them.
C3_Determinism ==
    \A args \in DOMAIN returned :
        \A i, j \in DOMAIN returned[args] :
            returned[args][i] = returned[args][j]

\* Three calls were made: two with the same arguments and one with another
\* n_customers; the dataset is not the same value in every row.
C3_Witness ==
    \E a, b \in DOMAIN returned :
        /\ a # b
        /\ Len(returned[a]) = 2
        /\ Len(returned[b]) = 1
        /\ a[1] = IntArg(2)
        /\ returned[a][1].data["Visits per Month"][1]
             # returned[a][1].data["Visits per Month"][2]

\* C4: the image written is 512 pixels wide and 512 high: the canvas is
\* 8 x 8 inches at 64 pixels per inch and the file is saved at the canvas's
\* own density, whole.
C4_ImageSize ==
    /\ fig # NoFig =>
         /\ fig[1].figsize[1] * fig[1].dpi = 512
         /\ fig[1].figsize[2] * fig[1].dpi = 512
    /\ file # NoFile =>
         /\ file[1].width = 512
         /\ file[1].height = 512
         /\ file[1].dpi = FigDpi

C4_Witness ==
    /\ pc = "done"
    /\ file # NoFile
    /\ runs = 1

C6_CanvasReleased ==
    pc \in {"done", "raised"} => figs = {}

\* C8 as stated: when customer_lifetime_value is computed, the eight other
\* fields, nps_score included, have been computed and their noise drawn.
C8_ClvComputedLast ==
    \A k \in DOMAIN drawlog :
        drawlog[k].name = "customer_lifetime_value" =>
            {"visits_per_month", "avg_session_duration_min",
             "pages_per_session", "email_open_rate",
             "email_click_through_rate", "purchase_frequency_per_month",
             "avg_order_value", "nps_score"} \subseteq NamesBefore(k)

\* C8 amended: when customer_lifetime_value is computed, the latent factor
\* and the seven fields from visits_per_month to avg_order_value have been
\* computed and their noise drawn, and nps_score has not: it is computed
\* after customer_lifetime_value, from the last draw.
C8_ClvAfterItsInputs ==
    /\ \A k \in DOMAIN drawlog :
         drawlog[k].name = "customer_lifetime_value" =>
             NamesBefore(k) =
                 {"engagement_factor", "visits_per_month",
                  "avg_session_duration_min", "pages_per_session",
                  "email_open_rate", "email_click_through_rate",
                  "purchase_frequency_per_month", "avg_order_value"}
    /\ \A k \in DOMAIN drawlog :
         drawlog[k].name = "nps_score" =>
             /\ "customer_lifetime_value" \in NamesBefore(k)
             /\ k = 10
    /\ \A k \in DOMAIN drawlog : drawlog[k].from = (k - 1) * n_customers.v

C8_Witness ==
    /\ pc = "DataFrame"
    /\ n_customers = IntArg(2)
    /\ Len(drawlog) = 10
    /\ drawlog[9].name = "customer_lifetime_value"

\* C9: in a returned dataset, for every customer i the lifetime value is
\* max(0, 200 + 80 latent[i] + 10 pf[i] + 0.5 aov[i] + noise[i]) with pf and
\* aov that customer's values in the dataset (clamped) and noise[i] a draw
\* of standard deviation 50 that no other field uses.
C9_LifetimeValue ==
    (pc = "returned" /\ n_customers.v >= 1) =>
        /\ \A i \in Rows :
             Data("Customer Lifetime Value ($)")[i] =
                 Max(0, 20000
                        + 8000 * LoggedVariate("engagement_factor", i)
                        + 10 * Data("Purchase Frequency / Month")[i]
                        + Data("Average Order Value ($)")[i] \div 2
                        + 5000 * LoggedVariate("customer_lifetime_value", i))
        /\ \A k \in DOMAIN drawlog :
             drawlog[k].name # "customer_lifetime_value" =>
                 Positions(drawlog[k])
                   \cap Positions(LoggedEntry("customer_lifetime_value")) = {}

\* Two customers: the first with a purchase frequency clamped to 0 and an
\* order value clamped to 5 and a positive lifetime value, the second with
\* neither clamped.
C9_Witness ==
    /\ pc = "returned"
    /\ n_customers = IntArg(2)
    /\ Data("Purchase Frequency / Month")[1] = 0
    /\ Data("Average Order Value ($)")[1] = 500
    /\ Data("Customer Lifetime Value ($)")[1] > 0
    /\ Data("Purchase Frequency / Month")[2] > 0
    /\ Data("Average Order Value ($)")[2] > 500
    /\ Data("Customer Lifetime Value ($)")[2] > 0

\* C10: the mask over the 9 x 9 correlation matrix is true exactly where the
\* column index is at least the row index, and the cells drawn and annotated
\* are exactly the 36 cells with row index greater than column index.
C10_LowerTriangle ==
    /\ mask # None =>
         /\ DOMAIN mask[1] = 1..9
         /\ \A r \in 1..9 :
              /\ DOMAIN mask[1][r] = 1..9
              /\ \A c \in 1..9 : mask[1][r][c] = (c >= r)
    /\ pc \in {"m134", "m146", "m147"} =>
         /\ ax[1].cells = {cell \in (1..9) \X (1..9) : cell[1] > cell[2]}
         /\ ax[1].annot = ax[1].cells
         /\ Cardinality(ax[1].cells) = 36

C10_Witness ==
    /\ pc = "m146"
    /\ mask # None
    /\ Cardinality(ax[1].cells) = 36

====
